---- MODULE Spec2Model ----
\* BottleOIDC (src/BottleOIDC/botOIDC.py): the OIDC relying party for Bottle.
\* One browser session is modelled: the session store is a Python dict, the
\* handlers run one at a time (one request each), the identity provider and
\* the browser are the environment and choose the inputs of every request.
EXTENDS Integers, Sequences, FiniteSets, TLC

\* ---------------------------------------------------------------- bounds
\* The clock now() runs over 0..MaxTime.
MaxTime == 2
\* Longest login_hooks list (the built-in hook included).
MaxHooks == 2
\* Longest login_hooks list where the order of the hooks is looked at.
MaxChain == 3

\* ------------------------------------------------------- python helpers
\* Python's None (for dict-valued results).
None == [none |-> TRUE]
\* Python's None where a str is expected (request.params.get(...), next=None).
NoneStr == "<None>"
\* bool(s) of an optional str.
Truthy(s) == s \notin {NoneStr, ""}

\* d[k] = v
Put(d, k, v) == [j \in (DOMAIN d) \cup {k} |-> IF j = k THEN v ELSE d[j]]
\* del d[k]
Del(d, k) == [j \in (DOMAIN d) \ {k} |-> d[j]]
\* the empty dict
EmptyDict == <<>>
\* A str and a list where a value can be either (type(x) is list).
Str(s) == [str |-> s]
List(l) == [list |-> l]
\* x in l, for a list l
In(x, l) == \E i \in DOMAIN l : l[i] = x

\* str.split('@')[0] on a string held as a sequence of characters.
RECURSIVE LocalPart(_)
LocalPart(s) ==
    IF s = <<>> \/ Head(s) = "@" THEN <<>>
    ELSE <<Head(s)>> \o LocalPart(Tail(s))

\* ------------------------------------------------------------ constants
token_name == "oidc_tokens"
sess_username == "username"
sess_attr == "oidc_attr"
default_user_attr == "email"
client_id == "client"
\* config.get('state_ttl', 60), configured small enough for the clock.
state_ttl == 1
\* self.timeout = config.get('timeout', 4)
timeout == 4
\* The timeout argument of the two req.post calls: timeout=self.timeout in
\* the code exchange, none (wait for ever) in the refresh.
exchange_timeout == <<timeout>>
refresh_timeout == <<>>
\* The literal 'Authenticated User'.
DefaultUser == <<"A","u","t","h","e","n","t","i","c","a","t","e","d"," ","U","s","e","r">>
\* Token names an application asks get_access_token for (None = primary).
TokenNames == {NoneStr, "api"}
\* request.url / next values.
Urls == {"/a", "/b"}

\* ----------------------------------------------------- identity tokens
\* An identity token as the provider issues it: wf = structurally a JWT,
\* sig = signed by a key of the provider's key set.
BaseClaims(aud) == [aud |-> aud, iss |-> "idp", iat |-> 0, nbf |-> 0]
Alice == <<"a","l","@","x">>
\* The exp claims the provider puts in the tokens it issues.
Exps == {1, 2}
LongExp == CHOOSE e \in Exps : \A f \in Exps : f <= e

Jwt(aud, claims) == [wf |-> TRUE, sig |-> TRUE, claims |-> claims @@ BaseClaims(aud)]

\* Tokens for al@x with each expiry.
AliceTokens == { Jwt(client_id, [exp |-> e, email |-> Alice]) : e \in Exps }
\* An address with an empty local part, and a token without the user claim.
OtherUserTokens ==
    { Jwt(client_id, [exp |-> LongExp, email |-> <<"@","x">>]),
      Jwt(client_id, [exp |-> LongExp]) }
NoExpToken == Jwt(client_id, [email |-> Alice])
BadSigToken == [Jwt(client_id, [exp |-> LongExp, email |-> Alice]) EXCEPT !.sig = FALSE]
BadAudToken == Jwt("other", [exp |-> LongExp, email |-> Alice])
MalformedToken == [wf |-> FALSE, sig |-> FALSE, claims |-> EmptyDict]

\* A raised exception / a returned value.
Raise == [ok |-> FALSE]
Return(v) == [ok |-> TRUE, val |-> v]

\* self.jwks.decode(token, audience=client_id) when verify, and
\* self.jwks.decode(token, options={'verify_signature': False}) otherwise.
decode(tok, verify, t) ==
    IF ~tok.wf THEN Raise
    ELSE IF verify /\ ( \/ ~tok.sig
                        \/ tok.claims.aud # client_id
                        \/ ("exp" \in DOMAIN tok.claims /\ tok.claims.exp <= t) )
         THEN Raise
    ELSE Return(tok.claims)

\* ---------------------------------------------------------- state token
\* OIDCstate.serial: the payload, signed together with its issuance time.
serial(payload, t) == [payload |-> payload, iat |-> t, sig |-> TRUE]

\* OIDCstate.deserial: raises on a missing, tampered or expired state.
deserial(s, t) ==
    IF s = None THEN Raise
    ELSE IF ~s.sig THEN Raise
    ELSE IF t - s.iat > state_ttl THEN Raise
    ELSE Return(s.payload)

\* ---------------------------------------------------- token endpoint
\* What req.post(self.token_url, ...) followed by resp.json() yields:
\* an exception (no connection, no JSON), or the JSON body.
NoResponse == [json |-> FALSE, body |-> EmptyDict]
\* The provider accepts the connection and never answers.
NeverResponds == [json |-> FALSE, body |-> EmptyDict, never |-> TRUE]
Json(b) == [json |-> TRUE, body |-> b]
\* req.post(url, data, timeout=tmo) does not return: the provider never
\* answers and no timeout is given.
Blocks(resp, tmo) == "never" \in DOMAIN resp /\ tmo = <<>>
Tokens(j) == [access_token |-> 1, id_token |-> j]
WithRefresh(b) == Put(b, "refresh_token", 1)

\* Answers without tokens, or with tokens that cannot be used.
FailedResponses ==
    { NoResponse,
      NeverResponds,
      Json([error |-> 1, error_description |-> 1]),
      Json([error |-> 1]),
      Json([access_token |-> 1]),
      Json(Tokens(NoExpToken)),
      Json(WithRefresh(Tokens(MalformedToken))) }

\* Answers to a refresh_token grant.
RefreshResponses ==
    FailedResponses
    \cup { Json(Tokens(j)) : j \in AliceTokens }
    \cup { Json(WithRefresh(Tokens(j))) : j \in AliceTokens }

\* Answers to an authorization_code grant.
TokenResponses ==
    RefreshResponses
    \cup { Json(Tokens(j)) : j \in OtherUserTokens \cup {BadSigToken, BadAudToken} }

\* The token endpoint answers only when it is asked: the answers to choose
\* from in a request that makes n requests to the token endpoint.
Answers(responses, n) == IF n = 0 THEN {NoResponse} ELSE responses

GoodResponse == Json(WithRefresh(Tokens(Jwt(client_id, [exp |-> LongExp, email |-> Alice]))))

\* The requests a browser can make to /oidc/authorized at time t: with the
\* provider's error, with a state that is missing, altered or too old, without
\* a code, and with a state that initiate_login issued and a code.
FreshState(t) == serial([next |-> "/a"], t)
CallbackRequest(e, s, c, r) == [has_error |-> e, state |-> s, has_code |-> c, resp |-> r]
CallbackRequests(t) ==
    { CallbackRequest(TRUE, FreshState(t), TRUE, GoodResponse),
      CallbackRequest(FALSE, None, TRUE, GoodResponse),
      CallbackRequest(FALSE, [FreshState(t) EXCEPT !.sig = FALSE], TRUE, GoodResponse),
      CallbackRequest(FALSE, FreshState(t), FALSE, GoodResponse) }
    \cup { CallbackRequest(FALSE, serial([next |-> "/a"], i), TRUE, GoodResponse)
             : i \in 0..t }
    \cup { CallbackRequest(FALSE, FreshState(t), TRUE, r) : r \in TokenResponses }

\* ------------------------------------------------------------ the state
VARIABLES
    session,      \* request.session: the session store, a dict
    now,          \* now(): int(time.time())
    login_hooks,  \* self.login_hooks
    logout_url,   \* self.logout_url (None unless config['logout_idp'])
    ev,           \* what the last request did and returned
    inflight      \* the requests being handled while others are: for each,
                  \* where it stands and the session it works on

vars == <<session, now, login_hooks, logout_url, ev, inflight>>

\* The observation of one request.
NoEv ==
    [ op |-> "none",        \* the entry point
      name |-> NoneStr,     \* token_name argument
      url |-> NoneStr,      \* request.url / next argument
      has_error |-> FALSE,  \* 'error' in request.params
      cached |-> None,      \* the TokenSet under token_name before the call
      stale |-> FALSE,      \* its exp was in the past (exp < now()) then
      before |-> None,      \* what the request before it returned, when that
                            \* was the same call (same op, same token_name)
      out |-> "none",       \* the kind of response
      ret |-> None,         \* the dict returned, if any
      next |-> NoneStr,     \* where the response redirects to
      post_logout_redirect_uri |-> NoneStr,
      stage |-> "none",     \* the step at which the callback stopped
      deserial |-> "none",  \* self.state.deserial: none, raised, returned
      net |-> 0,            \* requests made to the token endpoint
      resp |-> NoResponse,  \* what the token endpoint answered, if asked
      elapsed |-> FALSE,    \* require_login: not now() < exp of the primary
                            \* TokenSet when the request came
      unexpired |-> FALSE,  \* require_login: now() < exp of the primary
                            \* TokenSet when the request was answered
      check |-> "none",     \* _token_expire_check: none, True, False, raise
      hooks |-> <<>>,       \* self.login_hooks when the callback ran them
      allowed |-> {},       \* require_user: user_list
      attr |-> NoneStr,     \* require_attribute: attr
      value |-> None,       \* require_attribute: value
      changed |-> {} ]      \* session keys whose value the request changed

\* The two requests that can be handled at the same time.
Requests == {1, 2}
\* No request is being handled.
Idle == [p \in Requests |-> [pc |-> "idle"]]

\* BottleOIDC.__init__ with a configuration that sets logout_url to lurl.
Configured(lurl) ==
    /\ session = EmptyDict
    /\ now = 0
    /\ login_hooks = <<"_id_token_hook">>
    /\ logout_url = lurl
    /\ ev = NoEv
    /\ inflight = Idle

\* BottleOIDC.__init__ without config['logout_idp'].
Init == Configured(NoneStr)

\* The session keys on which two sessions differ.
Changed(s1, s2) ==
    { k \in (DOMAIN s1) \cup (DOMAIN s2) :
        \/ k \notin DOMAIN s1
        \/ k \notin DOMAIN s2
        \/ s1[k] # s2[k] }

\* The observation e of the request just handled.
Observe(e) ==
    ev' = [e EXCEPT !.changed = Changed(session, session')]

\* Time passes between requests.
Tick ==
    /\ now < MaxTime
    /\ now' = now + 1
    /\ UNCHANGED <<session, login_hooks, logout_url, ev, inflight>>

\* ------------------------------------------------------- authentication
\* BottleOIDC.is_authenticated
is_authenticated(sess) ==
    /\ sess_username \in DOMAIN sess
    /\ sess[sess_username] # <<>>

\* --------------------------------------------------------------- logout
\* The branches in another order: next before the provider's logout.
LogoutResponse_next_first(lurl, next) ==
    IF Truthy(next)
      THEN [out |-> "redirect", next |-> next, post_logout_redirect_uri |-> NoneStr]
    ELSE IF Truthy(lurl)
      THEN [out |-> "redirect", next |-> lurl, post_logout_redirect_uri |-> NoneStr]
    ELSE [out |-> "Logout complete", next |-> NoneStr, post_logout_redirect_uri |-> NoneStr]

\* BottleOIDC.initiate_logout(next): the response, after session_delete().
LogoutResponse(lurl, next) ==
    IF Truthy(lurl) /\ Truthy(next)
      THEN [out |-> "redirect", next |-> lurl, post_logout_redirect_uri |-> next]
    ELSE IF Truthy(lurl)
      THEN [out |-> "redirect", next |-> lurl, post_logout_redirect_uri |-> NoneStr]
    ELSE IF Truthy(next)
      THEN [out |-> "redirect", next |-> next, post_logout_redirect_uri |-> NoneStr]
    ELSE [out |-> "Logout complete", next |-> NoneStr, post_logout_redirect_uri |-> NoneStr]

\* The next argument and the next query parameter of a logout.
LogoutRequests ==
    { [arg |-> NoneStr, param |-> NoneStr], [arg |-> NoneStr, param |-> ""],
      [arg |-> NoneStr, param |-> "/b"], [arg |-> "/a", param |-> "/b"] }

initiate_logout ==
    \E req \in LogoutRequests :
      LET next == IF req.arg = NoneStr THEN req.param ELSE req.arg
          r == LogoutResponse(logout_url, next)
      IN /\ session' = EmptyDict
         /\ Observe([NoEv EXCEPT !.op = "initiate_logout", !.url = next,
                                 !.out = r.out, !.next = r.next,
                                 !.post_logout_redirect_uri =
                                     r.post_logout_redirect_uri])
         /\ UNCHANGED <<now, login_hooks, logout_url, inflight>>

\* -------------------------------------------------------------- refresh
\* The assignment of exp left out.
WithExp_left_out(tokens, idtok) == tokens

\* tokens['exp'] = idtok['exp']
WithExp(tokens, idtok) == Put(tokens, "exp", idtok.exp)

\* BottleOIDC._get_token_with_refresh(token_name, scope): the new tokens or
\* None, or an exception, or no return at all (hung); net counts the
\* requests to the token endpoint.
_get_token_with_refresh(sess, name, resp) ==
    LET tn == IF Truthy(name) THEN name ELSE token_name
        raised(n) == [raised |-> TRUE, hung |-> FALSE, ret |-> None, net |-> n]
        returns(v, n) == [raised |-> FALSE, hung |-> FALSE, ret |-> v, net |-> n]
    IN
    IF tn \notin DOMAIN sess /\ token_name \notin DOMAIN sess
      THEN raised(0)                         \* KeyError: session[self.token_name]
    ELSE
    LET current_tokens == IF tn \in DOMAIN sess THEN sess[tn] ELSE sess[token_name]
    IN
    IF "refresh_token" \notin DOMAIN current_tokens THEN returns(None, 0)
    ELSE IF Blocks(resp, refresh_timeout)    \* req.post does not return
      THEN [raised |-> FALSE, hung |-> TRUE, ret |-> None, net |-> 1]
    ELSE IF ~resp.json THEN raised(1)        \* req.post / resp.json() raises
    ELSE
    LET new_tokens == resp.body IN
    IF "error" \in DOMAIN new_tokens
      THEN IF "error_description" \in DOMAIN new_tokens
             THEN returns(None, 1)
             ELSE raised(1)                  \* KeyError in the log message
    ELSE IF "id_token" \notin DOMAIN new_tokens THEN raised(1)
    ELSE
    LET idtok == decode(new_tokens.id_token, FALSE, 0) IN
    IF ~idtok.ok THEN raised(1)
    ELSE IF "exp" \notin DOMAIN idtok.val THEN raised(1)
    ELSE returns(WithExp(new_tokens, idtok.val), 1)

\* Only the exp of the stored TokenSet renewed after a refresh.
_token_expire_check_exp_only(sess, name, resp, t) ==
    LET tn == IF Truthy(name) THEN name ELSE token_name
        raised(n) == [raised |-> TRUE, hung |-> FALSE, ret |-> FALSE,
                      sess |-> sess, net |-> n]
        returns(v, s, n) == [raised |-> FALSE, hung |-> FALSE, ret |-> v,
                             sess |-> s, net |-> n]
    IN
    IF tn \notin DOMAIN sess THEN raised(0)
    ELSE IF "exp" \notin DOMAIN sess[tn] THEN raised(0)
    ELSE IF t < sess[tn].exp THEN returns(TRUE, sess, 0)
    ELSE
    LET r == _get_token_with_refresh(sess, tn, resp) IN
    IF r.hung THEN [raised(r.net) EXCEPT !.raised = FALSE, !.hung = TRUE]
    ELSE IF r.raised THEN raised(r.net)
    ELSE IF r.ret # None
      THEN LET tokens == r.ret
               idtok == decode(tokens.id_token, FALSE, 0)
           IN IF ~idtok.ok \/ "exp" \notin DOMAIN idtok.val THEN raised(r.net)
              ELSE returns(TRUE, Put(sess, tn, WithExp(sess[tn], idtok.val)), r.net)
    ELSE returns(FALSE, sess, r.net)

\* The stale TokenSet dropped when the refresh yields None.
_token_expire_check_drops_stale(sess, name, resp, t) ==
    LET tn == IF Truthy(name) THEN name ELSE token_name
        raised(n) == [raised |-> TRUE, hung |-> FALSE, ret |-> FALSE,
                      sess |-> sess, net |-> n]
        returns(v, s, n) == [raised |-> FALSE, hung |-> FALSE, ret |-> v,
                             sess |-> s, net |-> n]
    IN
    IF tn \notin DOMAIN sess THEN raised(0)
    ELSE IF "exp" \notin DOMAIN sess[tn] THEN raised(0)
    ELSE IF t < sess[tn].exp THEN returns(TRUE, sess, 0)
    ELSE
    LET r == _get_token_with_refresh(sess, tn, resp) IN
    IF r.hung THEN [raised(r.net) EXCEPT !.raised = FALSE, !.hung = TRUE]
    ELSE IF r.raised THEN raised(r.net)
    ELSE IF r.ret # None
      THEN LET tokens == r.ret
               idtok == decode(tokens.id_token, FALSE, 0)
           IN IF ~idtok.ok \/ "exp" \notin DOMAIN idtok.val THEN raised(r.net)
              ELSE returns(TRUE, Put(sess, tn, WithExp(tokens, idtok.val)), r.net)
    ELSE returns(FALSE, Del(sess, tn), r.net)

\* BottleOIDC._token_expire_check(token_name): True, False or an exception,
\* or no return at all (hung), and the session it leaves.
_token_expire_check(sess, name, resp, t) ==
    LET tn == IF Truthy(name) THEN name ELSE token_name
        raised(n) == [raised |-> TRUE, hung |-> FALSE, ret |-> FALSE,
                      sess |-> sess, net |-> n]
        returns(v, s, n) == [raised |-> FALSE, hung |-> FALSE, ret |-> v,
                             sess |-> s, net |-> n]
    IN
    IF tn \notin DOMAIN sess THEN raised(0)
    ELSE IF "exp" \notin DOMAIN sess[tn] THEN raised(0)
    ELSE IF t < sess[tn].exp THEN returns(TRUE, sess, 0)
    ELSE
    LET r == _get_token_with_refresh(sess, tn, resp) IN
    IF r.hung THEN [raised(r.net) EXCEPT !.raised = FALSE, !.hung = TRUE]
    ELSE IF r.raised THEN raised(r.net)
    ELSE IF r.ret # None
      THEN LET tokens == r.ret
               idtok == decode(tokens.id_token, FALSE, 0)
           IN IF ~idtok.ok \/ "exp" \notin DOMAIN idtok.val THEN raised(r.net)
              ELSE returns(TRUE, Put(sess, tn, WithExp(tokens, idtok.val)), r.net)
    ELSE returns(FALSE, sess, r.net)

\* The test of _token_expire_check (not now() < exp) used here as well.
Expired_as_in_check(tokens, t) == ~(t < tokens.exp)

\* request.session[token_name]['exp'] < now(), the test of get_access_token.
Expired(tokens, t) == tokens.exp < t

\* The attributes taken anew from the refreshed id token.
get_access_token_new_identity(sess, name, resp, t) ==
    LET tn == IF Truthy(name) THEN name ELSE token_name
        raised(s, n) == [raised |-> TRUE, hung |-> FALSE, ret |-> None,
                         sess |-> s, net |-> n]
        returns(v, s, n) == [raised |-> FALSE, hung |-> FALSE, ret |-> v,
                             sess |-> s, net |-> n]
    IN
    IF tn \in DOMAIN sess /\ "exp" \notin DOMAIN sess[tn] THEN raised(sess, 0)
    ELSE
    LET s1 == IF tn \in DOMAIN sess /\ Expired(sess[tn], t) THEN Del(sess, tn) ELSE sess
    IN
    IF tn \in DOMAIN s1 THEN returns(s1[tn], s1, 0)
    ELSE
    LET r == _get_token_with_refresh(s1, NoneStr, resp) IN
    IF r.hung THEN [raised(s1, r.net) EXCEPT !.raised = FALSE, !.hung = TRUE]
    ELSE IF r.raised THEN raised(s1, r.net)
    ELSE IF r.ret # None
      THEN returns(r.ret,
                   Put(Put(s1, tn, r.ret), sess_attr, r.ret.id_token.claims),
                   r.net)
    ELSE returns(None, s1, r.net)

\* BottleOIDC.get_access_token(token_name, scope): the tokens or None, or an
\* exception, or no return at all (hung), and the session it leaves.
get_access_token(sess, name, resp, t) ==
    LET tn == IF Truthy(name) THEN name ELSE token_name
        raised(s, n) == [raised |-> TRUE, hung |-> FALSE, ret |-> None,
                         sess |-> s, net |-> n]
        returns(v, s, n) == [raised |-> FALSE, hung |-> FALSE, ret |-> v,
                             sess |-> s, net |-> n]
    IN
    IF tn \in DOMAIN sess /\ "exp" \notin DOMAIN sess[tn] THEN raised(sess, 0)
    ELSE
    LET s1 == IF tn \in DOMAIN sess /\ Expired(sess[tn], t) THEN Del(sess, tn) ELSE sess
    IN
    IF tn \in DOMAIN s1 THEN returns(s1[tn], s1, 0)
    ELSE
    LET r == _get_token_with_refresh(s1, NoneStr, resp) IN
    IF r.hung THEN [raised(s1, r.net) EXCEPT !.raised = FALSE, !.hung = TRUE]
    ELSE IF r.raised THEN raised(s1, r.net)
    ELSE IF r.ret # None THEN returns(r.ret, Put(s1, tn, r.ret), r.net)
    ELSE returns(None, s1, r.net)

\* An application calls auth.get_access_token(token_name) in a request.
GetAccessToken ==
    \E name \in TokenNames :
    \E resp \in Answers(RefreshResponses,
                        get_access_token(session, name, NoResponse, now).net) :
      LET r == get_access_token(session, name, resp, now)
          tn == IF Truthy(name) THEN name ELSE token_name
          again == ev.op = "get_access_token" /\ ev.name = name /\ ev.out = "return"
      IN
      /\ session' = r.sess
      /\ Observe([NoEv EXCEPT !.op = "get_access_token", !.name = name,
                              !.cached = IF tn \in DOMAIN session
                                           THEN session[tn] ELSE None,
                              !.stale = /\ tn \in DOMAIN session
                                        /\ "exp" \in DOMAIN session[tn]
                                        /\ session[tn].exp < now,
                              !.before = IF again THEN ev.ret ELSE None,
                              !.out = IF r.hung THEN "hang"
                                      ELSE IF r.raised THEN "raise" ELSE "return",
                              !.ret = r.ret, !.net = r.net, !.resp = resp])
      /\ UNCHANGED <<now, login_hooks, logout_url, inflight>>

\* ---------------------------------------------------------- login hooks
\* The list without 'nbf'.
StrippedKeys_without_nbf == {"aud", "iss", "iat", "exp", "aio", "tid", "uti", "ver", "wids"}

\* The keys _id_token_hook deletes.
StrippedKeys == {"aud", "iss", "iat", "nbf", "exp", "aio", "tid", "uti", "ver", "wids"}

\* BottleOIDC._id_token_hook(user, attr)
_id_token_hook(user, attr) ==
    LET kept == [k \in (DOMAIN attr) \ StrippedKeys |-> attr[k]]
        u == LocalPart(user)
    IN [ok |-> TRUE, user |-> u, attr |-> Put(kept, "username", u)]

\* Hooks an application registers with add_login_hook: one that raises.
UserHooks == {"hook_raise"}
\* And two that do not commute: one appends ! to the username, one notes
\* the username it was given in the attribute `seen`.
ChainHooks == UserHooks \cup {"hook_suffix", "hook_note"}

login_hook(h, user, attr) ==
    IF h = "_id_token_hook" THEN _id_token_hook(user, attr)
    ELSE IF h = "hook_suffix" THEN [ok |-> TRUE, user |-> user \o <<"!">>, attr |-> attr]
    ELSE IF h = "hook_note" THEN [ok |-> TRUE, user |-> user, attr |-> Put(attr, "seen", user)]
    ELSE [ok |-> FALSE, user |-> user, attr |-> attr]

\* The hooks run from the last registered to the first.
RECURSIVE RunHooks_last_first(_, _, _)
RunHooks_last_first(hooks, user, attr) ==
    IF hooks = <<>> THEN [ok |-> TRUE, user |-> user, attr |-> attr]
    ELSE LET r == login_hook(hooks[Len(hooks)], user, attr) IN
         IF ~r.ok THEN r
         ELSE RunHooks_last_first(SubSeq(hooks, 1, Len(hooks) - 1), r.user, r.attr)

\* for login_hook in self.login_hooks: username, attrs = login_hook(username, attrs)
RECURSIVE RunHooks(_, _, _)
RunHooks(hooks, user, attr) ==
    IF hooks = <<>> THEN [ok |-> TRUE, user |-> user, attr |-> attr]
    ELSE LET r == login_hook(Head(hooks), user, attr) IN
         IF ~r.ok THEN r ELSE RunHooks(Tail(hooks), r.user, r.attr)

\* BottleOIDC.add_login_hook(f), f one of the hooks H, up to max hooks.
AddLoginHook(H, max) ==
    \E h \in H :
      /\ Len(login_hooks) < max
      /\ login_hooks' = Append(login_hooks, h)
      /\ UNCHANGED <<session, now, logout_url, ev, inflight>>

\* An application registers a hook that raises.
add_login_hook == AddLoginHook(UserHooks, MaxHooks)

\* An application registers any of its hooks.
add_chain_hook == AddLoginHook(ChainHooks, MaxChain)

\* ---------------------------------------------------------------- login
\* BottleOIDC.initiate_login(next): the redirect to the provider, carrying
\* the signed state.
initiate_login(next, param, t) ==
    LET state == [next |-> IF Truthy(next) THEN next
                           ELSE IF param # NoneStr THEN param ELSE "/"]
    IN [out |-> "login", state |-> serial(state, t)]

\* What a step of the callback hands back: the response, the step reached,
\* the session, and what it did on the way.
Result(out, stage, sess, d, n, next) ==
    [out |-> out, stage |-> stage, sess |-> sess, deserial |-> d, net |-> n,
     next |-> next]

\* _finish_oauth_login, from the hook chain on: run the hooks, write the
\* attributes and the username, answer.
RunLoginHooks(s1, idtok, state, hooks, t) ==
    LET username == IF default_user_attr \in DOMAIN idtok
                      THEN idtok[default_user_attr] ELSE DefaultUser
        h == RunHooks(hooks, username, idtok)
    IN
    IF ~h.ok THEN Result("Unauthorized: verify", "hooks", s1, "returned", 1, NoneStr)
    ELSE
    LET attrs == Put(h.attr, "authenticated", t)
        s2 == Put(Put(s1, sess_attr, attrs), sess_username, h.user)
    IN
    IF "next" \in DOMAIN state
      THEN Result("redirect", "done", s2, "returned", 1, state.next)
      ELSE Result("authenticated", "done", s2, "returned", 1, NoneStr)

\* The tokens stored before the id token is verified.
VerifyIdToken_store_first(sess, tokens, state, hooks, t) ==
    IF "id_token" \notin DOMAIN tokens
      THEN Result("Unauthorized: verify", "id_token", sess, "returned", 1, NoneStr)
    ELSE
    LET idtok == decode(tokens.id_token, TRUE, t)
        s1 == Put(sess, token_name, tokens)
    IN
    IF ~idtok.ok
      THEN Result("Unauthorized: verify", "decode", s1, "returned", 1, NoneStr)
    ELSE IF "exp" \notin DOMAIN idtok.val
      THEN Result("Unauthorized: verify", "exp", s1, "returned", 1, NoneStr)
    ELSE RunLoginHooks(Put(sess, token_name, WithExp(tokens, idtok.val)),
                       idtok.val, state, hooks, t)

\* _finish_oauth_login, from the inner try on: verify the id token, store
\* the tokens.
VerifyIdToken(sess, tokens, state, hooks, t) ==
    IF "id_token" \notin DOMAIN tokens
      THEN Result("Unauthorized: verify", "id_token", sess, "returned", 1, NoneStr)
    ELSE
    LET idtok == decode(tokens.id_token, TRUE, t) IN
    IF ~idtok.ok
      THEN Result("Unauthorized: verify", "decode", sess, "returned", 1, NoneStr)
    ELSE IF "exp" \notin DOMAIN idtok.val
      THEN Result("Unauthorized: verify", "exp", sess, "returned", 1, NoneStr)
    ELSE RunLoginHooks(Put(sess, token_name, WithExp(tokens, idtok.val)),
                       idtok.val, state, hooks, t)

\* _finish_oauth_login, from the outer try on: exchange the code.
ExchangeCode(sess, params, resp, state, hooks, t) ==
    IF ~params.has_code                       \* code[:10] on None
      THEN Result("Unauthorized: acquiring", "code", sess, "returned", 0, NoneStr)
    ELSE IF Blocks(resp, exchange_timeout)    \* req.post does not return
      THEN Result("hang", "exchange", sess, "returned", 1, NoneStr)
    ELSE IF ~resp.json                        \* req.post / resp.json() raises
      THEN Result("Unauthorized: acquiring", "exchange", sess, "returned", 1, NoneStr)
    ELSE IF "error" \in DOMAIN resp.body
      THEN IF "error_description" \in DOMAIN resp.body
             THEN Result("Conflict", "exchange", sess, "returned", 1, NoneStr)
             ELSE Result("Unauthorized: acquiring", "exchange", sess, "returned", 1, NoneStr)
    ELSE VerifyIdToken(sess, resp.body, state, hooks, t)

\* The except clause logs and does not return.
ValidateState_goes_on(sess, params, resp, hooks, t) ==
    LET state == deserial(params.state, t) IN
    IF ~state.ok
      THEN [ExchangeCode(sess, params, resp, EmptyDict, hooks, t)
              EXCEPT !.deserial = "raised"]
      ELSE ExchangeCode(sess, params, resp, state.val, hooks, t)

\* _finish_oauth_login, from the state on: validate and deserialize it.
ValidateState(sess, params, resp, hooks, t) ==
    LET state == deserial(params.state, t) IN
    IF ~state.ok
      THEN Result("BadRequest", "state", sess, "raised", 0, NoneStr)
      ELSE ExchangeCode(sess, params, resp, state.val, hooks, t)

\* The error parameter looked at only after the state.
_finish_oauth_login_state_first(sess, params, resp, hooks, t) ==
    LET state == deserial(params.state, t) IN
    IF ~state.ok
      THEN Result("BadRequest", "state", sess, "raised", 0, NoneStr)
    ELSE IF params.has_error
      THEN Result("BadRequest", "error", sess, "returned", 0, NoneStr)
    ELSE ExchangeCode(sess, params, resp, state.val, hooks, t)

\* BottleOIDC._finish_oauth_login: the callback route /oidc/authorized.
\* params: has_error ('error' in request.params), state, has_code.
_finish_oauth_login(sess, params, resp, hooks, t) ==
    IF params.has_error
      THEN Result("BadRequest", "error", sess, "none", 0, NoneStr)
      ELSE ValidateState(sess, params, resp, hooks, t)

\* The browser comes back from the provider to /oidc/authorized with one
\* of the given requests.
FinishOauthLoginWith(requests) ==
    \E req \in requests :
      LET r == _finish_oauth_login(session, req, req.resp, login_hooks, now) IN
      /\ session' = r.sess
      /\ Observe([NoEv EXCEPT !.op = "_finish_oauth_login",
                              !.has_error = req.has_error,
                              !.out = r.out, !.stage = r.stage,
                              !.next = r.next, !.net = r.net,
                              !.deserial = r.deserial,
                              !.resp = IF r.net > 0 THEN req.resp ELSE NoResponse,
                              !.hooks = IF r.stage \in {"hooks", "done"}
                                          THEN login_hooks ELSE <<>>])
      /\ UNCHANGED <<now, login_hooks, logout_url, inflight>>

FinishOauthLogin == FinishOauthLoginWith(CallbackRequests(now))

\* ------------------------------------------------------- require_login
\* The _wrapper of BottleOIDC.require_login(f), for a request to url.
require_login(sess, url, resp, t) ==
    LET login(s, n, c) ==
            [out |-> initiate_login(url, NoneStr, t).out, sess |-> s, net |-> n,
             check |-> c, next |-> initiate_login(url, NoneStr, t).state.payload.next]
    IN
    IF is_authenticated(sess) /\ token_name \in DOMAIN sess
      THEN LET c == _token_expire_check(sess, token_name, resp, t) IN
           IF c.hung
             THEN [out |-> "hang", sess |-> c.sess, net |-> c.net,
                   check |-> "hang", next |-> NoneStr]
           ELSE IF c.raised
             THEN [out |-> "raise", sess |-> c.sess, net |-> c.net,
                   check |-> "raise", next |-> NoneStr]
           ELSE IF c.ret
             THEN [out |-> "handler", sess |-> c.sess, net |-> c.net,
                   check |-> "True", next |-> NoneStr]
           ELSE login(c.sess, c.net, "False")
      ELSE login(sess, 0, "none")

\* A request to a route wrapped by @auth.require_login.
RequireLogin ==
    \E url \in Urls :
    \E resp \in Answers(RefreshResponses,
                        require_login(session, url, NoResponse, now).net) :
      LET r == require_login(session, url, resp, now)
          exp_of(s) == IF token_name \in DOMAIN s /\ "exp" \in DOMAIN s[token_name]
                         THEN {s[token_name].exp} ELSE {}
      IN
      /\ session' = r.sess
      /\ Observe([NoEv EXCEPT !.op = "require_login", !.url = url,
                              !.out = r.out, !.next = r.next, !.net = r.net,
                              !.check = r.check, !.resp = resp,
                              !.elapsed = \E e \in exp_of(session) : ~(now < e),
                              !.unexpired = \E e \in exp_of(r.sess) : now < e])
      /\ UNCHANGED <<now, login_hooks, logout_url, inflight>>

\* ---------------------------------------------------------------- logins
\* Id tokens with a role claim: a str, a list, an empty list, and one for an
\* address with an empty local part.
RoleClaims ==
    { Str("guest"), Str("admin"), List(<<Str("member"), Str("admin")>>), List(<<>>) }
RoleTokens ==
    { Jwt(client_id, [exp |-> LongExp, email |-> Alice, role |-> v]) : v \in RoleClaims }
    \cup { Jwt(client_id, [exp |-> LongExp, email |-> <<"@","x">>, role |-> Str("admin")]) }

\* Callback requests that pass the state check and exchange the code for
\* tokens with one of the id tokens ids.
LoginRequests(ids, t) ==
    { CallbackRequest(FALSE, FreshState(t), TRUE, Json(WithRefresh(Tokens(j)))) : j \in ids }

\* A login of one of the users.
Login == FinishOauthLoginWith(LoginRequests(AliceTokens \cup OtherUserTokens, now))

\* A login with an id token that carries a role.
LoginWithRole == FinishOauthLoginWith(LoginRequests(RoleTokens, now))

\* -------------------------------------------------------------- policies
\* The username looked up whether or not the session is authenticated.
my_username_unchecked(sess) ==
    IF sess_username \in DOMAIN sess THEN Str(sess[sess_username]) ELSE None

\* BottleOIDC.my_username
my_username(sess) ==
    IF is_authenticated(sess) THEN Str(sess[sess_username]) ELSE None

\* BottleOIDC.my_attrs; raises when the session has a username and no
\* attributes.
my_attrs(sess) ==
    IF is_authenticated(sess)
      THEN IF sess_attr \in DOMAIN sess THEN Return(sess[sess_attr]) ELSE Raise
      ELSE Return(EmptyDict)

\* The _wrapper of BottleOIDC.require_user(user_list).
require_user(sess, user_list) ==
    IF In(my_username(sess), user_list) THEN "handler" ELSE "Unauthorized"

\* The user lists of the routes: empty, al, and the empty name and bob.
UserLists ==
    { <<>>, <<Str(<<"a","l">>)>>, <<Str(<<>>), Str(<<"b","o","b">>)>> }

\* A request to a route wrapped by @auth.require_user(user_list).
RequireUser ==
    \E user_list \in UserLists :
      /\ session' = session
      /\ Observe([NoEv EXCEPT !.op = "require_user", !.allowed = user_list,
                              !.out = require_user(session, user_list)])
      /\ UNCHANGED <<now, login_hooks, logout_url, inflight>>

\* Every stored value has to be among the expected ones.
test_attrs_all(challenge, standard) ==
    LET stand_list == IF "list" \in DOMAIN standard THEN standard.list ELSE <<standard>>
        chal_list == IF "list" \in DOMAIN challenge THEN challenge.list ELSE <<challenge>>
    IN \A i \in DOMAIN chal_list : In(chal_list[i], stand_list)

\* test_attrs(challenge, standard) of require_attribute
test_attrs(challenge, standard) ==
    LET stand_list == IF "list" \in DOMAIN standard THEN standard.list ELSE <<standard>>
        chal_list == IF "list" \in DOMAIN challenge THEN challenge.list ELSE <<challenge>>
    IN \E i \in DOMAIN chal_list : In(chal_list[i], stand_list)

\* The _wrapper of BottleOIDC.require_attribute(attr, value).
require_attribute(sess, attr, value) ==
    LET attrs == my_attrs(sess) IN
    IF ~attrs.ok THEN "raise"
    ELSE IF attr \in DOMAIN attrs.val
      THEN IF test_attrs(sess[sess_attr][attr], value) THEN "handler"
           ELSE "Unauthorized"
    ELSE "Unauthorized"

\* The attributes and the values the routes require.
RequiredAttrs == {"role", "group"}
RequiredValues ==
    { Str("admin"), List(<<Str("admin"), Str("owner")>>), List(<<Str("guest")>>) }

\* A request to a route wrapped by @auth.require_attribute(attr, value).
RequireAttribute ==
    \E attr \in RequiredAttrs, value \in RequiredValues :
      /\ session' = session
      /\ Observe([NoEv EXCEPT !.op = "require_attribute", !.attr = attr,
                              !.value = value,
                              !.out = require_attribute(session, attr, value)])
      /\ UNCHANGED <<now, login_hooks, logout_url, inflight>>

\* -------------------------------------------- two requests at a time
\* The session store, last writer wins per session: a request works on the
\* session as it was when the request came, and the session it leaves
\* replaces the stored one.
session_load(store) == store

session_save(store, sess) == sess

\* What the token endpoint answers to the refresh of request p: tokens of
\* its own, or an error.
RaceResponses(p) ==
    { Json(WithRefresh([access_token |-> p + 1, id_token |-> j])) : j \in AliceTokens }
    \cup { Json([error |-> 1, error_description |-> 1]) }

\* Request p to a route wrapped by @auth.require_login comes: it is answered
\* at once, or it asks the token endpoint for a refresh and waits.
BeginRequireLogin(p) ==
    /\ inflight[p].pc = "idle"
    /\ LET sess == session_load(session)
           r == require_login(sess, "/a", NoResponse, now)
       IN IF r.net = 0
            THEN /\ inflight' = [inflight EXCEPT ![p] =
                        [pc |-> "done", sess |-> sess, t |-> now, out |-> r.out,
                         net |-> 0, resp |-> NoResponse]]
                 /\ session' = session_save(session, r.sess)
            ELSE /\ inflight' = [inflight EXCEPT ![p] =
                        [pc |-> "posted", sess |-> sess, t |-> now]]
                 /\ session' = session
    /\ UNCHANGED <<now, login_hooks, logout_url, ev>>

\* The token endpoint answers request p, which goes on to its end.
AnswerRefresh(p) ==
    /\ inflight[p].pc = "posted"
    /\ \E resp \in RaceResponses(p) :
         LET r == require_login(inflight[p].sess, "/a", resp, inflight[p].t) IN
         /\ inflight' = [inflight EXCEPT ![p] =
                [pc |-> "done", sess |-> inflight[p].sess, t |-> inflight[p].t,
                 out |-> r.out, net |-> r.net, resp |-> resp]]
         /\ session' = session_save(session, r.sess)
    /\ UNCHANGED <<now, login_hooks, logout_url, ev>>

\* Both requests are answered.
EndRequests ==
    /\ \A p \in Requests : inflight[p].pc = "done"
    /\ inflight' = Idle
    /\ UNCHANGED <<session, now, login_hooks, logout_url, ev>>

\* A login while no request is being handled.
LoginWhenIdle == inflight = Idle /\ Login

\* ------------------------------------------------------ specifications
Next ==
    \/ Tick
    \/ initiate_logout
    \/ GetAccessToken
    \/ add_login_hook
    \/ FinishOauthLogin
    \/ RequireLogin

Spec == Init /\ [][Next]_vars

\* The hook chain: logins with hooks registered in every order.
NextHooks ==
    \/ Tick
    \/ add_chain_hook
    \/ Login

SpecHooks == Init /\ [][NextHooks]_vars

\* The policies: require_user and require_attribute on the sessions that
\* logins and logouts leave.
NextPolicy ==
    \/ Tick
    \/ LoginWithRole
    \/ initiate_logout
    \/ RequireUser
    \/ RequireAttribute

SpecPolicy == Init /\ [][NextPolicy]_vars

\* Logout, with and without config['logout_idp'].
InitLogout == \E lurl \in {NoneStr, "https://idp/logout"} : Configured(lurl)

NextLogout ==
    \/ Tick
    \/ Login
    \/ initiate_logout

SpecLogout == InitLogout /\ [][NextLogout]_vars

\* Two require_login requests of one session, their steps interleaved.
NextRace ==
    \/ Tick
    \/ LoginWhenIdle
    \/ \E p \in Requests : BeginRequireLogin(p)
    \/ \E p \in Requests : AnswerRefresh(p)
    \/ EndRequests

SpecRace == Init /\ [][NextRace]_vars

\* ================================================================ claims
\* The session keys that hold a TokenSet.
TokenKeys == {token_name, "api"}
\* The session keys of the identity.
LoginKeys == {token_name, sess_attr, sess_username}
\* The key get_access_token(name) works on.
KeyOf(name) == IF Truthy(name) THEN name ELSE token_name

\* C1: the handler wrapped by require_login is invoked only if the session
\* is authenticated, holds a primary TokenSet and _token_expire_check
\* returned True; in every other case the handler is not invoked and
\* initiate_login is called with next = the URL of the request.
C1_RequireLoginGate ==
    ev.op = "require_login" =>
        /\ ev.out = "handler" =>
              /\ is_authenticated(session)
              /\ token_name \in DOMAIN session
              /\ ev.check = "True"
        /\ ev.out # "handler" => (ev.out = "login" /\ ev.next = ev.url)

\* C2: when a login hook raises during the callback, the primary TokenSet,
\* the attributes and the username are what they were before the callback.
C2_HookFailureWritesNothing ==
    (ev.op = "_finish_oauth_login" /\ ev.stage = "hooks") =>
        /\ ev.out \notin {"redirect", "authenticated"}
        /\ ev.changed \cap LoginKeys = {}

\* C3: when decoding the id token of the code exchange fails, the callback
\* fails and the session is what it was before the callback.
C3_VerifyFailureWritesNothing ==
    (ev.op = "_finish_oauth_login" /\ ev.stage = "decode") =>
        /\ ev.out = "Unauthorized: verify"
        /\ ev.changed = {}

\* A callback whose id token did not verify left an authenticated session.
C3_Witness ==
    /\ ev.op = "_finish_oauth_login"
    /\ ev.stage = "decode"
    /\ is_authenticated(session)
    /\ token_name \in DOMAIN session

\* C4: a callback with an `error` parameter is a bad request, made before
\* any deserialization of the state and any request to the token endpoint,
\* and leaves the session unchanged.
C4_ProviderErrorFirst ==
    (ev.op = "_finish_oauth_login" /\ ev.has_error) =>
        /\ ev.out = "BadRequest"
        /\ ev.deserial = "none"
        /\ ev.net = 0
        /\ ev.changed = {}

C4_Witness ==
    /\ ev.op = "_finish_oauth_login"
    /\ ev.has_error
    /\ ev.out = "BadRequest"
    /\ is_authenticated(session)

\* C5: when the deserialization of the state raises, the callback is a bad
\* request, no code is exchanged and no session key is written; a code is
\* exchanged only after the state of the same request was deserialized.
C5_StateBeforeExchange ==
    ev.op = "_finish_oauth_login" =>
        /\ ev.deserial = "raised" =>
              (ev.out = "BadRequest" /\ ev.net = 0 /\ ev.changed = {})
        /\ ev.net > 0 => ev.deserial = "returned"

\* A state issued at time 0 was rejected at time 2, past its TTL.
C5_Witness ==
    /\ ev.op = "_finish_oauth_login"
    /\ ev.deserial = "raised"
    /\ ev.out = "BadRequest"
    /\ now > state_ttl

\* C6: every TokenSet in the session, primary or named, carries an exp.
C6_StoredTokensHaveExp ==
    \A k \in TokenKeys \cap DOMAIN session : "exp" \in DOMAIN session[k]

\* A refresh by require_login stored the primary TokenSet, next to a named one.
C6_Witness ==
    /\ ev.op = "require_login"
    /\ ev.net = 1
    /\ token_name \in ev.changed
    /\ TokenKeys \subseteq DOMAIN session

\* C7: when the cached TokenSet's exp is in the past and it has no
\* refresh_token, get_access_token returns None, raises nothing, and leaves
\* no TokenSet under that name.
C7_StaleUnrefreshable ==
    ( /\ ev.op = "get_access_token"
      /\ ev.cached # None
      /\ ev.stale
      /\ "refresh_token" \notin DOMAIN ev.cached ) =>
        /\ ev.out = "return"
        /\ ev.ret = None
        /\ KeyOf(ev.name) \notin DOMAIN session

\* C8: a get_access_token call that follows one for the same name, the
\* TokenSet that one returned not expired since (not exp < now()), returns
\* that same TokenSet, makes no request to the token endpoint and leaves
\* the session as it was.
C8_SecondCallCached ==
    (ev.op = "get_access_token" /\ ev.before # None /\ ~ev.stale) =>
        /\ ev.out = "return"
        /\ ev.ret = ev.before
        /\ ev.net = 0
        /\ ev.changed = {}

\* A second call for the named token, at the very second of its exp.
C8_Witness ==
    /\ ev.op = "get_access_token"
    /\ ev.name = "api"
    /\ ev.before # None
    /\ ev.ret = ev.before
    /\ ev.ret.exp = now

\* An address: one @, with something before it and something after it.
IsAddress(s) ==
    \E i \in 2..(Len(s) - 1) : \A j \in 1..Len(s) : (s[j] = "@") <=> (j = i)
\* What stands before the @ of an address.
BeforeAt(s) == SubSeq(s, 1, (CHOOSE i \in 1..Len(s) : s[i] = "@") - 1)
\* The user claim of the id token the session's primary TokenSet came with.
UserClaim == session[token_name].id_token.claims[default_user_attr]

\* C9: after a successful callback with only the built-in hook and an id
\* token whose user claim is an address: the username is its local part,
\* attributes['username'] is the username, attributes['authenticated'] is
\* set and none of exp, iat, aud, iss, nbf is among the attributes.
C9_DefaultHookIdentity ==
    ( /\ ev.op = "_finish_oauth_login"
      /\ ev.stage = "done"
      /\ login_hooks = <<"_id_token_hook">>
      /\ default_user_attr \in DOMAIN session[token_name].id_token.claims
      /\ IsAddress(UserClaim) ) =>
        /\ session[sess_username] = BeforeAt(UserClaim)
        /\ session[sess_attr]["username"] = session[sess_username]
        /\ "authenticated" \in DOMAIN session[sess_attr]
        /\ {"exp", "iat", "aud", "iss", "nbf"} \cap DOMAIN session[sess_attr] = {}

C9_Witness ==
    /\ ev.op = "_finish_oauth_login"
    /\ ev.stage = "done"
    /\ login_hooks = <<"_id_token_hook">>
    /\ session[sess_username] = <<"a", "l">>
    /\ session[sess_attr]["email"] = Alice

\* C10, as stated: initiate_logout clears the session; without a logout URL
\* of the provider it redirects to next when there is one and else answers
\* 'Logout complete'; with one it redirects there with
\* post_logout_redirect_uri.
C10_LogoutAsStated ==
    ev.op = "initiate_logout" =>
        /\ session = EmptyDict
        /\ ~Truthy(logout_url) =>
              IF Truthy(ev.url) THEN ev.out = "redirect" /\ ev.next = ev.url
              ELSE ev.out = "Logout complete"
        /\ Truthy(logout_url) =>
              /\ ev.out = "redirect"
              /\ ev.next = logout_url
              /\ Truthy(ev.post_logout_redirect_uri)

\* C10, amended: as above, but with a logout URL of the provider the
\* redirect carries post_logout_redirect_uri = next when there is a next,
\* and no such parameter when there is none.
C10_Logout ==
    ev.op = "initiate_logout" =>
        /\ session = EmptyDict
        /\ ~Truthy(logout_url) =>
              IF Truthy(ev.url) THEN ev.out = "redirect" /\ ev.next = ev.url
              ELSE ev.out = "Logout complete"
        /\ Truthy(logout_url) =>
              /\ ev.out = "redirect"
              /\ ev.next = logout_url
              /\ ev.post_logout_redirect_uri =
                    (IF Truthy(ev.url) THEN ev.url ELSE NoneStr)

\* An authenticated session logged out at the provider, with a next.
C10_Witness ==
    /\ ev.op = "initiate_logout"
    /\ Truthy(logout_url)
    /\ Truthy(ev.url)
    /\ LoginKeys \subseteq ev.changed
    /\ session = EmptyDict

\* The requests that can ask the token endpoint for a refresh.
RefreshOps == {"require_login", "get_access_token"}
\* The token endpoint was asked and answered with a token response.
AnsweredWithTokens ==
    /\ ev.net > 0
    /\ ev.resp.json
    /\ {"id_token", "access_token"} \subseteq DOMAIN ev.resp.body
\* The TokenSet a refresh makes of the answer: the body, with the exp of
\* its id token.
RefreshedTokenSet == Put(ev.resp.body, "exp", ev.resp.body.id_token.claims.exp)

\* C12: a refresh that fails because the request to the token endpoint
\* fails, or because the provider answers with an error body, raises
\* nothing in require_login and in get_access_token.
C12_RefreshFailsSoft ==
    ( /\ ev.op \in RefreshOps
      /\ ev.net > 0
      /\ (ev.resp = NoResponse \/ "error" \in DOMAIN ev.resp.body) ) =>
        ev.out # "raise"

\* C13: _token_expire_check, called by require_login: when exp has not
\* elapsed it returns True and asks nothing of the token endpoint; when exp
\* has elapsed and the refresh succeeds it stores the new TokenSet under the
\* token name and returns True; when it returns False the session, stale
\* TokenSet included, is what it was.
C13_TokenExpireCheck ==
    (ev.op = "require_login" /\ ev.check \in {"True", "False"}) =>
        /\ ~ev.elapsed => (ev.check = "True" /\ ev.net = 0 /\ ev.changed = {})
        /\ (ev.elapsed /\ ev.check = "True") =>
              /\ AnsweredWithTokens
              /\ session[token_name] = RefreshedTokenSet
              /\ ev.changed \subseteq {token_name}
        /\ (ev.elapsed /\ AnsweredWithTokens) => ev.check = "True"
        /\ ev.check = "False" =>
              /\ ev.elapsed
              /\ ev.changed = {}
              /\ token_name \in DOMAIN session
              /\ ~(now < session[token_name].exp)

\* The refresh of an elapsed primary TokenSet yielded None: the provider's
\* error, the stale TokenSet still stored, the browser sent to log in.
C13_Witness ==
    /\ ev.op = "require_login"
    /\ ev.check = "False"
    /\ ev.net = 1
    /\ "error" \in DOMAIN ev.resp.body
    /\ ev.out = "login"
    /\ "refresh_token" \in DOMAIN session[token_name]

\* C14: a refresh through require_login or get_access_token changes no
\* session key but the one of the refreshed token name: the username and the
\* attributes (all that a login hook yields) stay what they were.
C14_RefreshKeepsIdentity ==
    (ev.op \in RefreshOps /\ ev.net > 0) =>
        /\ ev.changed \subseteq {IF ev.op = "require_login" THEN token_name
                                 ELSE KeyOf(ev.name)}
        /\ ev.changed \cap {sess_username, sess_attr} = {}

\* get_access_token('api') stored a refreshed TokenSet whose id token is
\* not the one the identity of the session came from.
C14_Witness ==
    /\ ev.op = "get_access_token"
    /\ ev.net = 1
    /\ ev.changed = {"api"}
    /\ is_authenticated(session)
    /\ session["api"].id_token # session[token_name].id_token
    /\ session[sess_attr]["authenticated"] < now

\* C16: a code exchange that fails (the request to the token endpoint
\* fails, or the body carries `error`) is answered with the conflict-type
\* error and writes nothing to the session.
C16_ExchangeFailureIsConflict ==
    ( /\ ev.op = "_finish_oauth_login"
      /\ ev.net > 0
      /\ (~ev.resp.json \/ "error" \in DOMAIN ev.resp.body) ) =>
        /\ ev.out = "Conflict"
        /\ ev.changed = {}

\* C17: no request (callback, require_login, get_access_token) hangs on the
\* token endpoint: when the provider never answers, the request is answered
\* with a failure.
C17_NoRequestHangs ==
    ev.op \in RefreshOps \cup {"_finish_oauth_login"} => ev.out # "hang"

\* C19: whenever require_login invokes the handler, the primary TokenSet
\* stored then is unexpired (now() < exp).
C19_HandlerTokenUnexpired ==
    (ev.op = "require_login" /\ ev.out = "handler") => ev.unexpired

\* The values of a str or a list, as a set.
Values(v) == IF "list" \in DOMAIN v THEN { v.list[i] : i \in DOMAIN v.list } ELSE {v}
\* The attributes of the session as my_attrs gives them: those stored, for
\* an authenticated session, and none for any other.
SessionAttrs == IF is_authenticated(session) THEN session[sess_attr] ELSE EmptyDict

\* C11: the handler wrapped by require_attribute(attr, value) is invoked if
\* and only if attr is among the attributes of the session and the stored
\* value, a str or a list, has a value in common with the expected one, a
\* str or a list; in every other case the answer is Unauthorized.
C11_RequireAttribute ==
    ev.op = "require_attribute" =>
        /\ ev.out = "handler" <=>
              /\ ev.attr \in DOMAIN SessionAttrs
              /\ Values(SessionAttrs[ev.attr]) \cap Values(ev.value) # {}
        /\ ev.out # "handler" => ev.out = "Unauthorized"

\* The example of the specification: role [member, admin] stored,
\* [admin, owner] expected.
C11_Witness ==
    /\ ev.op = "require_attribute"
    /\ ev.out = "handler"
    /\ ev.value = List(<<Str("admin"), Str("owner")>>)
    /\ session[sess_attr]["role"] = List(<<Str("member"), Str("admin")>>)

\* What the first n of the hooks make of (user, attr), each given what the
\* one before it returned.
RECURSIVE HookChain(_, _, _, _)
HookChain(hooks, n, user, attr) ==
    IF n = 0 THEN [user |-> user, attr |-> attr]
    ELSE LET before == HookChain(hooks, n - 1, user, attr)
             r == login_hook(hooks[n], before.user, before.attr)
         IN [user |-> r.user, attr |-> r.attr]

\* C15: after a successful callback the username and the attributes of the
\* session are what the last registered hook returned (and `authenticated`),
\* the hooks run in the order of their registration, the built-in hook
\* first, each on what the one before it returned.
C15_HooksInRegistrationOrder ==
    (ev.op = "_finish_oauth_login" /\ ev.stage = "done") =>
        LET claims == session[token_name].id_token.claims
            first == IF default_user_attr \in DOMAIN claims
                       THEN claims[default_user_attr] ELSE DefaultUser
            last == HookChain(ev.hooks, Len(ev.hooks), first, claims)
        IN /\ ev.hooks[1] = "_id_token_hook"
           /\ session[sess_username] = last.user
           /\ "authenticated" \in DOMAIN session[sess_attr]
           /\ Del(session[sess_attr], "authenticated") = last.attr

\* hook_suffix registered before hook_note: the username noted has the !.
C15_Witness ==
    /\ ev.op = "_finish_oauth_login"
    /\ ev.stage = "done"
    /\ ev.hooks = <<"_id_token_hook", "hook_suffix", "hook_note">>
    /\ session[sess_username] = <<"a", "l", "!">>
    /\ session[sess_attr]["seen"] = <<"a", "l", "!">>
    /\ session[sess_attr]["username"] = <<"a", "l">>

\* Both requests asked the token endpoint and got tokens.
BothRefreshed ==
    \A p \in Requests :
        /\ inflight[p].pc = "done"
        /\ inflight[p].net = 1
        /\ "id_token" \in DOMAIN inflight[p].resp.body
\* The TokenSet the refresh of request p makes of its answer.
RefreshedBy(p) ==
    Put(inflight[p].resp.body, "exp", inflight[p].resp.body.id_token.claims.exp)

\* C18: when two require_login requests of a session have each refreshed
\* the primary TokenSet, in any order of their steps, the session holds the
\* TokenSet of one of them, whole and with its exp, and the username and
\* the attributes the requests found.
C18_RaceLeavesOneTokenSet ==
    BothRefreshed =>
        /\ token_name \in DOMAIN session
        /\ \E p \in Requests : session[token_name] = RefreshedBy(p)
        /\ \A p \in Requests :
              /\ session[sess_username] = inflight[p].sess[sess_username]
              /\ session[sess_attr] = inflight[p].sess[sess_attr]

\* Both requests found the same stale TokenSet, and the session holds the
\* TokenSet of the first, the exp of which differs from that of the second.
C18_Witness ==
    /\ BothRefreshed
    /\ inflight[1].sess = inflight[2].sess
    /\ session[token_name] = RefreshedBy(1)
    /\ RefreshedBy(1).exp # RefreshedBy(2).exp

\* C20: the handler wrapped by require_user(user_list) is invoked only if
\* the session is authenticated and its username is in user_list; a session
\* that is not authenticated (no username, an empty one, a session cleared
\* by a logout) is answered Unauthorized whatever the list.
C20_RequireUser ==
    ev.op = "require_user" =>
        /\ ev.out = "handler" =>
              /\ is_authenticated(session)
              /\ In(Str(session[sess_username]), ev.allowed)
        /\ ev.out # "handler" => ev.out = "Unauthorized"
        /\ ~is_authenticated(session) => ev.out = "Unauthorized"

\* A session with the empty username, and a list with the empty name in it.
C20_Witness ==
    /\ ev.op = "require_user"
    /\ ev.out = "Unauthorized"
    /\ sess_username \in DOMAIN session
    /\ session[sess_username] = <<>>
    /\ In(Str(<<>>), ev.allowed)
====
